---- MODULE Spec2Model ----
(***************************************************************************)
(* Backend sidecar supervisor of ClonEpub (electron/src/main.ts) and the   *)
(* frontend bridge callAPI (clonepub/ui app.js).                           *)
(*                                                                         *)
(* Time is counted in ticks of 500 ms, the greatest common divisor of the  *)
(* program's delays (1000 ms initial delay, 500 ms retry delay, 2000 ms    *)
(* per-attempt timeout, 60000 ms overall timeout).  `now` is the time      *)
(* elapsed since waitForServer took startTime.                             *)
(*                                                                         *)
(* The main process is single threaded: code between two awaits of a real  *)
(* asynchronous operation runs without interleaving, so each action below  *)
(* is one such run.  An await of an already settled promise resumes in a   *)
(* microtask, before any other event, and is part of the same action.      *)
(***************************************************************************)
EXTENDS Integers, FiniteSets, Sequences, Bags, TLC

VARIABLES
    \* ---- disk, survives app launches
    marker,          \* <userData>/.venv/bin/python exists
    depsInstalled,   \* uv sync has installed every dependency
    \* ---- environment
    foreignServer,   \* another process answers on 127.0.0.1:8765
    child,           \* OS state of the spawned backend process
    uvPhase,         \* progress of the external `uv sync` command
    \* ---- main process (main.ts)
    appState,        \* "running" | "exited"
    launches,        \* number of app launches so far
    pc,              \* position of the 'ready' handler
    quitting,        \* app.quit() has been accepted (before-quit emitted)
    pythonProcess,   \* main.ts:45
    mainWindow,      \* main.ts:44
    setupWindow,     \* main.ts:46
    isBackendReady,  \* main.ts:367
    \* ---- waitForServer
    timeout,         \* argument of waitForServer, in ticks
    now,             \* Date.now() - startTime, in ticks
    timers,          \* bag of due times of pending setTimeout(checkServer)
    reqs,            \* bag of start times of http.get requests in flight
    result,          \* state of the promise returned by waitForServer
    resolvedAt,      \* value of `now` when the promise was resolved
    lastStatus,      \* status of the last /health response (0: none yet)
    lastPending,     \* the promise was pending when that response arrived
    \* ---- renderer (app.js)
    callPhase,       \* "idle" | "fetching" | "calling" | "done"
    callMethod,      \* method of the current/last callAPI invocation
    callResult,      \* value callAPI resolved with
    callFetched,     \* the invocation issued a fetch()
    callTransport,   \* what happened to the fetch or to the direct call
    isElectron,      \* app.js:128  window.electronAPI is defined
    pywebviewReady,  \* app.js:182  window.pywebview.api is available
    callAge,         \* ticks the current fetch() has been pending
    \* ---- synthesis job: backend side and the page's view of it (app.js)
    jobRunning,       \* the backend is synthesising
    jobPercent,       \* the backend's progress
    synthesisRunning, \* app.js: state.synthesisRunning
    progressInterval, \* app.js: state.progressInterval is set
    progressFill,     \* app.js: percent shown by elements.progressFill
    pollCall,         \* "idle" | "pending": callAPI of pollProgress
    ctlCall,          \* "idle" | "start" | "stop": callAPI of start/stop
    pollReply,        \* value the last finished pollProgress received
    ctlReply,         \* value the last finished start/stop received
    \* ---- observations of one launch (history, never read by the program)
    markerAtStartup,   \* the marker existed when 'ready' fired
    provisionAttempts, \* invocations of setupPythonEnvironment
    setupResult,       \* what setupPythonEnvironment returned
    errorBoxes,        \* dialog.showErrorBox calls, by title
    spawnCount,        \* invocations of startPythonBackend (spawn)
    termSignals,       \* SIGTERMs sent by stopPythonBackend
    healthyAtInvoke,   \* child known alive and ready when callAPI was invoked
    exitSeenAfterReady \* the 'exit' handler ran while isBackendReady

vars == <<marker, depsInstalled, foreignServer, child, uvPhase, appState,
          launches, pc, quitting, pythonProcess, mainWindow, setupWindow,
          isBackendReady, timeout, now, timers, reqs, result, resolvedAt,
          lastStatus, lastPending, callPhase, callMethod, callResult,
          callFetched, callTransport, isElectron, pywebviewReady, callAge,
          jobRunning, jobPercent, synthesisRunning, progressInterval,
          progressFill, pollCall, ctlCall, pollReply, ctlReply,
          markerAtStartup, provisionAttempts, setupResult, errorBoxes,
          spawnCount, termSignals, healthyAtInvoke, exitSeenAfterReady>>

diskVars   == <<marker, depsInstalled>>
probeVars  == <<timeout, now, timers, reqs, result, resolvedAt,
                lastStatus, lastPending>>
jobVars    == <<jobRunning, jobPercent, synthesisRunning, progressInterval,
                progressFill, pollCall, ctlCall, pollReply, ctlReply>>
callVars   == <<callPhase, callMethod, callResult, callFetched, callTransport,
                healthyAtInvoke, isElectron, pywebviewReady, callAge,
                jobVars>>
windowVars == <<mainWindow, setupWindow>>

----------------------------------------------------------------------------
\* Bounds of the model
MaxLaunches == 2
MaxChains == 2
\* Overall timeout startPythonBackend waits for, in ticks.  The program uses
\* the default of waitForServer, DefaultTimeout (60000 ms); the model explores
\* the supervisor with a shorter wait, which still leaves room for a hanging
\* attempt followed by retries.
StartupTimeout == 8
MaxProbeTimeout == 8
\* Longest time, in ticks, the model counts on a pending fetch()
MaxCallWait == 3
\* Steps of progress the backend's job reports
MaxPercent == 2

\* Program constants, in ticks of 500 ms
InitialDelay == 2
RetryDelay == 1
AttemptTimeout == 4

NULL == "null"
Statuses == {200, 204, 299, 503}
ProbeTimeouts == 1 .. MaxProbeTimeout

ErrorTitles == {"Setup Failed", "Server Error"}

----------------------------------------------------------------------------
\* The part of the main-process state that stop/quit act on, as a record, so
\* that one handler can apply several of them in sequence.
Main ==
    [pythonProcess |-> pythonProcess, termSignals |-> termSignals,
     quitting |-> quitting, appState |-> appState,
     mainWindow |-> mainWindow, setupWindow |-> setupWindow,
     errorBoxes |-> errorBoxes]

SetMain(m) ==
    /\ pythonProcess' = m.pythonProcess
    /\ termSignals' = m.termSignals
    /\ quitting' = m.quitting
    /\ appState' = m.appState
    /\ mainWindow' = m.mainWindow
    /\ setupWindow' = m.setupWindow
    /\ errorBoxes' = m.errorBoxes

\* A BrowserWindow exists on screen
WindowOpen(w) == w \in {"created", "shown"}

\* main.ts:67-70: fs.existsSync(<venv>/bin/python)
isEnvironmentReady_Never == FALSE

isEnvironmentReady == marker

stopPythonBackend_KeepsHandle(m) ==
    IF m.pythonProcess # NULL
    THEN [m EXCEPT !.termSignals = @ + 1]
    ELSE m

\* main.ts:238  kill the child if the handle is set, then forget the handle
stopPythonBackend(m) ==
    IF m.pythonProcess # NULL
    THEN [m EXCEPT !.termSignals = @ + 1, !.pythonProcess = NULL]
    ELSE m

beforeQuit_NoStop(m) == m

\* main.ts:413  app.on('before-quit')
beforeQuit(m) == stopPythonBackend(m)

\* app.quit(): emits 'before-quit' once, then closes the windows; with no
\* window left the process shuts down at once.
quit(m) ==
    IF m.quitting
    THEN m
    ELSE LET m1 == beforeQuit([m EXCEPT !.quitting = TRUE])
         IN  IF WindowOpen(m1.mainWindow) \/ WindowOpen(m1.setupWindow)
             THEN m1
             ELSE [m1 EXCEPT !.appState = "exited"]

\* dialog.showErrorBox(title, ...): modal, blocks until dismissed
showErrorBox(m, title) == [m EXCEPT !.errorBoxes[title] = @ + 1]

\* main.ts:318
createMainWindow(m) == [m EXCEPT !.mainWindow = "created"]

\* main.ts:403  app.on('window-all-closed')
windowAllClosed(m) == quit(m)

\* main.ts:149-155 and 185: take startTime, schedule the first checkServer
waitForServer(t) ==
    /\ timeout' = t
    /\ now' = 0
    /\ timers' = SetToBag({InitialDelay})
    /\ reqs' = EmptyBag
    /\ result' = "pending"
    /\ resolvedAt' = 0
    /\ lastStatus' = 0
    /\ lastPending' = FALSE

\* main.ts:189-228: spawn the child, register its handlers, start waiting.
\* spawn itself never throws for a missing or broken executable: the child
\* object exists and an 'error' event follows.
startPythonBackend ==
    /\ pythonProcess' = "proc"
    /\ \E c \in {"starting", "spawnfailed"} : child' = c
    /\ spawnCount' = spawnCount + 1
    /\ waitForServer(StartupTimeout)
    /\ pc' = "probing"

\* main.ts:128-141 and 380-382: the catch block of setupPythonEnvironment and
\* the caller's reaction to its false
setupFailed_NoQuit(m) ==
    [showErrorBox(m, "Setup Failed") EXCEPT !.setupWindow = NULL]

setupFailed(m) ==
    quit([showErrorBox(m, "Setup Failed") EXCEPT !.setupWindow = NULL])

readyAfterWait_IgnoreFailure(m, serverReady) ==
    [m |-> createMainWindow(m), ready |-> TRUE]

\* main.ts:229-235 and 388-400: what runs when the waitForServer promise
\* settles with serverReady
readyAfterWait(m, serverReady) ==
    IF serverReady
    THEN [m |-> createMainWindow(m), ready |-> TRUE]
    ELSE [m |-> quit(showErrorBox(stopPythonBackend(m), "Server Error")),
          ready |-> isBackendReady]

----------------------------------------------------------------------------
\* Value of `progress` in pollProgress: null, or the backend's snapshot
NullReply == [kind |-> "null", running |-> FALSE, percent |-> 0]

Snapshot(running, percent) ==
    [kind |-> "snapshot", running |-> running, percent |-> percent]

\* No job, nothing polled, the page as loaded
JobInit ==
    /\ jobRunning = FALSE
    /\ jobPercent = 0
    /\ synthesisRunning = FALSE
    /\ progressInterval = FALSE
    /\ progressFill = 0
    /\ pollCall = "idle"
    /\ ctlCall = "idle"
    /\ pollReply = [kind |-> "none", running |-> FALSE, percent |-> 0]
    /\ ctlReply = "none"

\* The renderer of a closed window is gone, and so are its calls
RendererGone ==
    /\ callPhase' = "idle"
    /\ callMethod' = NULL
    /\ callResult' = NULL
    /\ callFetched' = FALSE
    /\ callTransport' = NULL
    /\ healthyAtInvoke' = FALSE
    /\ callAge' = 0
    /\ UNCHANGED <<isElectron, pywebviewReady, jobVars>>

RendererAfter(m) ==
    IF WindowOpen(m.mainWindow) /\ m.appState = "running"
    THEN UNCHANGED callVars
    ELSE RendererGone

Init ==
    /\ marker = FALSE
    /\ depsInstalled = FALSE
    /\ foreignServer \in BOOLEAN
    /\ child = "none"
    /\ uvPhase = "idle"
    /\ appState = "running"
    /\ launches = 1
    /\ pc = "start"
    /\ quitting = FALSE
    /\ pythonProcess = NULL
    /\ mainWindow = NULL
    /\ setupWindow = NULL
    /\ isBackendReady = FALSE
    /\ timeout = 0
    /\ now = 0
    /\ timers = EmptyBag
    /\ reqs = EmptyBag
    /\ result = "none"
    /\ resolvedAt = 0
    /\ lastStatus = 0
    /\ lastPending = FALSE
    /\ callPhase = "idle"
    /\ callMethod = NULL
    /\ callResult = NULL
    /\ callFetched = FALSE
    /\ callTransport = NULL
    /\ isElectron = TRUE
    /\ pywebviewReady = FALSE
    /\ callAge = 0
    /\ JobInit
    /\ markerAtStartup = FALSE
    /\ provisionAttempts = 0
    /\ setupResult = NULL
    /\ errorBoxes = [t \in ErrorTitles |-> 0]
    /\ spawnCount = 0
    /\ termSignals = 0
    /\ healthyAtInvoke = FALSE
    /\ exitSeenAfterReady = FALSE

\* The main process can run an event handler: it is alive and not blocked in
\* execSync
MainRuns == appState = "running" /\ pc # "uvsync"

----------------------------------------------------------------------------
\* main.ts:369-387  app.on('ready') up to its first real suspension
AppReady ==
    /\ appState = "running" /\ pc = "start"
    /\ markerAtStartup' = marker
    /\ IF isEnvironmentReady
       THEN /\ startPythonBackend
            /\ UNCHANGED <<provisionAttempts, setupWindow, uvPhase>>
       ELSE \* setupPythonEnvironment: showSetupWindow, then execSync blocks
            /\ provisionAttempts' = provisionAttempts + 1
            /\ setupWindow' = "shown"
            /\ uvPhase' = "running"
            /\ pc' = "uvsync"
            /\ UNCHANGED <<pythonProcess, child, spawnCount, probeVars>>
    /\ UNCHANGED <<diskVars, foreignServer, appState, launches, quitting,
                   mainWindow, isBackendReady, callVars, setupResult,
                   errorBoxes, termSignals, exitSeenAfterReady>>

\* `uv sync` creates the virtual environment (and with it bin/python) first
UvCreateVenv ==
    /\ appState = "running" /\ pc = "uvsync" /\ uvPhase = "running"
    /\ marker' = TRUE
    /\ uvPhase' = "venv"
    /\ UNCHANGED <<depsInstalled, foreignServer, child, appState, launches,
                   pc, quitting, pythonProcess, windowVars, isBackendReady,
                   probeVars, callVars, markerAtStartup, provisionAttempts,
                   setupResult, errorBoxes, spawnCount, termSignals,
                   exitSeenAfterReady>>

\* ... and then downloads and installs the dependencies into it
UvInstallDeps ==
    /\ appState = "running" /\ pc = "uvsync" /\ uvPhase = "venv"
    /\ depsInstalled' = TRUE
    /\ uvPhase' = "ok"
    /\ UNCHANGED <<marker, foreignServer, child, appState, launches,
                   pc, quitting, pythonProcess, windowVars, isBackendReady,
                   probeVars, callVars, markerAtStartup, provisionAttempts,
                   setupResult, errorBoxes, spawnCount, termSignals,
                   exitSeenAfterReady>>

\* uv exits non-zero (network, disk) or is killed by execSync's 600000 ms
\* timeout, at any point before it is done
UvFail ==
    /\ appState = "running" /\ pc = "uvsync"
    /\ uvPhase \in {"running", "venv"}
    /\ uvPhase' = "failed"
    /\ UNCHANGED <<diskVars, foreignServer, child, appState, launches,
                   pc, quitting, pythonProcess, windowVars, isBackendReady,
                   probeVars, callVars, markerAtStartup, provisionAttempts,
                   setupResult, errorBoxes, spawnCount, termSignals,
                   exitSeenAfterReady>>

\* main.ts:126-142 and 379-387: execSync returned or threw
SetupReturn ==
    /\ appState = "running" /\ pc = "uvsync"
    /\ uvPhase \in {"ok", "failed"}
    /\ uvPhase' = "idle"
    /\ IF uvPhase = "ok"
       THEN /\ setupResult' = "true"
            /\ startPythonBackend
            /\ UNCHANGED <<termSignals, quitting, appState, windowVars,
                           errorBoxes>>
       ELSE /\ setupResult' = "false"
            /\ SetMain(setupFailed(Main))
            /\ pc' = "done"
            /\ UNCHANGED <<child, spawnCount, probeVars>>
    /\ UNCHANGED <<diskVars, foreignServer, launches, isBackendReady,
                   callVars, markerAtStartup, provisionAttempts,
                   exitSeenAfterReady>>

----------------------------------------------------------------------------
\* The backend process
ChildAlive == child \in {"starting", "serving"}

\* Something accepts connections on 127.0.0.1:8765
Listener == child = "serving" \/ foreignServer

\* clonepub.server imports its dependencies and binds the port
ChildServe ==
    /\ child = "starting"
    /\ depsInstalled /\ ~foreignServer
    /\ child' = "serving"
    /\ UNCHANGED <<diskVars, foreignServer, uvPhase, appState, launches, pc,
                   quitting, pythonProcess, windowVars, isBackendReady,
                   probeVars, callVars, markerAtStartup, provisionAttempts,
                   setupResult, errorBoxes, spawnCount, termSignals,
                   exitSeenAfterReady>>

\* main.ts:222-225: the child exits (crash, import error, port in use, a
\* signal from anyone); while the app lives its 'exit' handler runs
ChildExit ==
    /\ ChildAlive
    /\ child' = "exited"
    /\ IF appState = "running"
       THEN /\ pythonProcess' = NULL
            /\ exitSeenAfterReady' = (exitSeenAfterReady \/ isBackendReady)
       ELSE UNCHANGED <<pythonProcess, exitSeenAfterReady>>
    /\ UNCHANGED <<diskVars, foreignServer, uvPhase, appState, launches, pc,
                   quitting, windowVars, isBackendReady,
                   probeVars, callVars, markerAtStartup, provisionAttempts,
                   setupResult, errorBoxes, spawnCount, termSignals>>

----------------------------------------------------------------------------
\* waitForServer / checkServer, main.ts:156-186
One(x) == SetToBag({x})

Chains == BagCardinality(timers) + BagCardinality(reqs)

\* resolve(v) of the promise, followed by the code awaiting it.  Resolving a
\* settled promise does nothing.
Resolve(v) ==
    IF result = "pending"
    THEN LET r == readyAfterWait(Main, v)
         IN  /\ result' = IF v THEN "true" ELSE "false"
             /\ resolvedAt' = now
             /\ SetMain(r.m)
             /\ isBackendReady' = r.ready
             /\ pc' = "done"
    ELSE UNCHANGED <<result, resolvedAt, pythonProcess, termSignals, quitting,
                     appState, windowVars, errorBoxes, isBackendReady, pc>>

NoResolve ==
    UNCHANGED <<result, resolvedAt, pythonProcess, termSignals, quitting,
                appState, windowVars, errorBoxes, isBackendReady, pc>>

\* The deadline test of checkServer, main.ts:158
DeadlinePassed_CountsAttempt == now + AttemptTimeout >= timeout

DeadlinePassed == now >= timeout

\* main.ts:157-164: a setTimeout(checkServer) fires
CheckServer ==
    /\ MainRuns
    /\ \E t \in BagToSet(timers) :
         /\ t <= now
         /\ timers' = timers (-) One(t)
    /\ IF DeadlinePassed
       THEN /\ Resolve(FALSE)
            /\ UNCHANGED reqs
       ELSE /\ reqs' = reqs (+) One(now)
            /\ NoResolve
    /\ UNCHANGED <<diskVars, foreignServer, child, uvPhase, launches,
                   timeout, now, lastStatus, lastPending, callVars,
                   markerAtStartup, provisionAttempts, setupResult,
                   spawnCount, exitSeenAfterReady>>

\* The status test of the response callback, main.ts:165
IsSuccessStatus_Any2xx(status) == status \in 200 .. 299

IsSuccessStatus(status) == status = 200

\* main.ts:164-171: a response arrives before the attempt timed out
ReqResponse ==
    /\ MainRuns /\ Listener
    /\ \E r \in BagToSet(reqs), status \in Statuses :
         /\ now < r + AttemptTimeout
         /\ reqs' = reqs (-) One(r)
         /\ lastStatus' = status
         /\ lastPending' = (result = "pending")
         /\ IF IsSuccessStatus(status)
            THEN /\ Resolve(TRUE)
                 /\ UNCHANGED timers
            ELSE /\ timers' = timers (+) One(now + RetryDelay)
                 /\ NoResolve
    /\ UNCHANGED <<diskVars, foreignServer, child, uvPhase, launches,
                   timeout, now, callVars, markerAtStartup,
                   provisionAttempts, setupResult, spawnCount,
                   exitSeenAfterReady>>

\* main.ts:173-176: connection refused or reset
ReqError ==
    /\ MainRuns
    /\ \E r \in BagToSet(reqs) :
         /\ now < r + AttemptTimeout
         /\ reqs' = reqs (-) One(r)
    /\ timers' = timers (+) One(now + RetryDelay)
    /\ NoResolve
    /\ UNCHANGED <<diskVars, foreignServer, child, uvPhase, launches,
                   timeout, now, lastStatus, lastPending, callVars,
                   markerAtStartup, provisionAttempts, setupResult,
                   spawnCount, exitSeenAfterReady>>

\* main.ts:178-181: no answer for 2000 ms.  The callback destroys the request
\* and schedules a retry; destroying a request that has no response yet makes
\* it emit 'error' (socket hang up), whose handler schedules a retry as well.
ReqTimeout ==
    /\ MainRuns
    /\ \E r \in BagToSet(reqs) :
         /\ now >= r + AttemptTimeout
         /\ reqs' = reqs (-) One(r)
    /\ timers' = timers (+) One(now + RetryDelay) (+) One(now + RetryDelay)
    /\ NoResolve
    /\ UNCHANGED <<diskVars, foreignServer, child, uvPhase, launches,
                   timeout, now, lastStatus, lastPending, callVars,
                   markerAtStartup, provisionAttempts, setupResult,
                   spawnCount, exitSeenAfterReady>>

\* 500 ms pass.  Timers fire when due; a request stays unanswered only while
\* something holds the connection open.
Tick ==
    /\ MainRuns
    /\ Chains > 0
    /\ \A t \in BagToSet(timers) : t > now
    /\ \A r \in BagToSet(reqs) : now < r + AttemptTimeout
    /\ reqs # EmptyBag => Listener
    /\ (\E r \in BagToSet(reqs) : now + 1 = r + AttemptTimeout)
          => Chains < MaxChains
    /\ now' = now + 1
    /\ UNCHANGED <<diskVars, foreignServer, child, uvPhase, appState,
                   launches, pc, quitting, pythonProcess, windowVars,
                   isBackendReady, timeout, timers, reqs, result, resolvedAt,
                   lastStatus, lastPending, callVars, markerAtStartup, provisionAttempts,
                   setupResult, errorBoxes, spawnCount, termSignals,
                   exitSeenAfterReady>>

----------------------------------------------------------------------------
\* Application events

\* Cmd+Q, Quit menu: app.quit()
UserQuit ==
    /\ MainRuns /\ ~quitting
    /\ SetMain(quit(Main))
    /\ RendererAfter(quit(Main))
    /\ UNCHANGED <<diskVars, foreignServer, child, uvPhase, launches, pc,
                   isBackendReady, probeVars, markerAtStartup,
                   provisionAttempts, setupResult, spawnCount,
                   exitSeenAfterReady>>

\* After an accepted quit the windows are closed and the process ends
AppExit ==
    /\ appState = "running" /\ quitting
    /\ pc # "uvsync"
    /\ appState' = "exited"
    /\ mainWindow' = NULL
    /\ setupWindow' = NULL
    /\ RendererGone
    /\ UNCHANGED <<diskVars, foreignServer, child, uvPhase, launches, pc,
                   quitting, pythonProcess, isBackendReady, probeVars,
                   markerAtStartup, provisionAttempts, setupResult,
                   errorBoxes, spawnCount, termSignals, exitSeenAfterReady>>

\* main.ts:357-359 and 403-411: the user closes a window.  mainWindow has a
\* 'closed' handler that clears the variable, setupWindow has none.  When it
\* was the last window, 'window-all-closed' is emitted.
UserCloseWindow ==
    /\ MainRuns /\ ~quitting
    /\ \E w \in {"main", "setup"} :
         /\ w = "main" => mainWindow = "shown"
         /\ w = "setup" => setupWindow = "shown"
         /\ LET m1 == IF w = "main"
                      THEN [Main EXCEPT !.mainWindow = NULL]
                      ELSE [Main EXCEPT !.setupWindow = "destroyed"]
                m2 == IF WindowOpen(m1.mainWindow) \/ WindowOpen(m1.setupWindow)
                      THEN m1
                      ELSE windowAllClosed(m1)
            IN  /\ SetMain(m2)
                /\ RendererAfter(m2)
    /\ UNCHANGED <<diskVars, foreignServer, child, uvPhase, launches, pc,
                   isBackendReady, probeVars, markerAtStartup,
                   provisionAttempts, setupResult, spawnCount,
                   exitSeenAfterReady>>

\* main.ts:343-350: 'ready-to-show' of the main window.  close() on a setup
\* window the user already closed throws and leaves the variable as it is.
MainWindowReadyToShow ==
    /\ MainRuns
    /\ mainWindow = "created"
    /\ mainWindow' = "shown"
    /\ setupWindow' = IF setupWindow = "shown" THEN NULL ELSE setupWindow
    /\ UNCHANGED <<diskVars, foreignServer, child, uvPhase, appState,
                   launches, pc, quitting, pythonProcess, isBackendReady,
                   probeVars, callVars, markerAtStartup, provisionAttempts,
                   setupResult, errorBoxes, spawnCount, termSignals,
                   exitSeenAfterReady>>

\* The condition of the 'activate' handler, main.ts:420
ActivateCreates_NoReadyCheck == mainWindow = NULL

ActivateCreates == mainWindow = NULL /\ isBackendReady

\* main.ts:419-423: macOS 'activate' (dock icon, app brought to front, also
\* emitted when the app is first launched)
\* main.ts:425-432: the handlers of 'uncaughtException' and
\* 'unhandledRejection' write a log line; with a handler installed the
\* process goes on running.
UncaughtException ==
    /\ MainRuns
    /\ UNCHANGED vars

\* An 'activate' handler that runs the backend startup again when there is
\* no window.
Activate_Restart ==
    /\ MainRuns
    /\ IF mainWindow = NULL /\ pc = "done"
       THEN startPythonBackend
       ELSE UNCHANGED <<pythonProcess, child, spawnCount, pc, probeVars>>
    /\ UNCHANGED <<diskVars, foreignServer, uvPhase, appState, launches,
                   quitting, windowVars, isBackendReady, callVars,
                   markerAtStartup, provisionAttempts, setupResult,
                   errorBoxes, termSignals, exitSeenAfterReady>>

Activate ==
    /\ MainRuns
    /\ IF ActivateCreates
       THEN SetMain(createMainWindow(Main))
       ELSE UNCHANGED <<pythonProcess, termSignals, quitting, appState,
                        windowVars, errorBoxes>>
    /\ UNCHANGED <<diskVars, foreignServer, child, uvPhase, launches, pc,
                   isBackendReady, probeVars, callVars, markerAtStartup,
                   provisionAttempts, setupResult, spawnCount,
                   exitSeenAfterReady>>

\* The user starts the app again after it exited.  The disk is what the last
\* run left; a backend that outlived the app still holds the port.
Relaunch ==
    /\ appState = "exited"
    /\ launches < MaxLaunches
    /\ launches' = launches + 1
    /\ foreignServer' = (foreignServer \/ child = "serving")
    /\ child' = "none"
    /\ uvPhase' = "idle"
    /\ appState' = "running"
    /\ pc' = "start"
    /\ quitting' = FALSE
    /\ pythonProcess' = NULL
    /\ mainWindow' = NULL
    /\ setupWindow' = NULL
    /\ isBackendReady' = FALSE
    /\ timeout' = 0
    /\ now' = 0
    /\ timers' = EmptyBag
    /\ reqs' = EmptyBag
    /\ result' = "none"
    /\ resolvedAt' = 0
    /\ lastStatus' = 0
    /\ lastPending' = FALSE
    /\ RendererGone
    /\ markerAtStartup' = FALSE
    /\ provisionAttempts' = 0
    /\ setupResult' = NULL
    /\ errorBoxes' = [t \in ErrorTitles |-> 0]
    /\ spawnCount' = 0
    /\ termSignals' = 0
    /\ exitSeenAfterReady' = FALSE
    /\ UNCHANGED diskVars

----------------------------------------------------------------------------
\* The bridge, app.js:128-192.  isElectron is true in every window the main
\* process creates (preload.ts exposes electronAPI); the same page served by
\* the pywebview host calls window.pywebview.api instead.
API_ENDPOINTS == {"check_models", "get_synthesis_progress", "get_downloads_dir"}

\* Methods the page calls on window.pywebview.api: those of the HTTP table
\* and the native dialogs (app.js:222, 422, 441), which have no HTTP endpoint
DirectApi == API_ENDPOINTS \cup {"open_file_dialog"}

Methods == DirectApi \cup {"no_such_method"}

\* The supervisor's readiness state is Healthy: it has set the ready flag and
\* still holds the child handle, which the 'exit' handler (main.ts:224) and
\* stopPythonBackend (main.ts:242) clear
Healthy == isBackendReady /\ pythonProcess # NULL

\* What the backend did with a call, whichever transport carried it
BackendBehaviour(o) ==
    CASE o \in {"json", "value"} -> "result"
      [] o = "error_payload"     -> "error_payload"
      [] OTHER                   -> "failure"

\* app.js:573-575: over pywebview get_downloads_dir returns the path itself
\* (a string), over HTTP an object {path}; the dialogs return a path
DirectValue(method) ==
    IF method \in {"get_downloads_dir", "open_file_dialog"}
    THEN "string"
    ELSE "json"

\* app.js:157-179: the value callAPI returns in Electron mode
HttpResult(method, behaviour) ==
    IF method \notin API_ENDPOINTS THEN NULL
    ELSE IF behaviour = "result" THEN "json"
    ELSE IF behaviour = "error_payload" THEN "error_payload"
    ELSE NULL

\* app.js:181-191: the value callAPI returns in pywebview mode
DirectResult(method, behaviour) ==
    IF method \notin DirectApi THEN NULL
    ELSE IF behaviour = "result" THEN DirectValue(method)
    ELSE IF behaviour = "error_payload" THEN "error_payload"
    ELSE NULL

\* app.js:151-187: callAPI up to the await of fetch or of the direct call
CallAPI ==
    /\ appState = "running"
    /\ WindowOpen(mainWindow)
    /\ callPhase \notin {"fetching", "calling"}
    /\ \E method \in Methods :
         /\ callMethod' = method
         /\ IF isElectron
            THEN IF method \notin API_ENDPOINTS
                 THEN /\ callPhase' = "done"
                      /\ callFetched' = FALSE
                 ELSE /\ callPhase' = "fetching"
                      /\ callFetched' = TRUE
            ELSE /\ callFetched' = FALSE
                 /\ callPhase' = IF pywebviewReady /\ method \in DirectApi
                                 THEN "calling"
                                 ELSE "done"
    /\ callResult' = NULL
    /\ callTransport' = NULL
    /\ callAge' = 0
    /\ healthyAtInvoke' = Healthy
    /\ UNCHANGED <<diskVars, foreignServer, child, uvPhase, appState,
                   launches, pc, quitting, pythonProcess, windowVars,
                   isBackendReady, probeVars, markerAtStartup,
                   provisionAttempts, setupResult, errorBoxes, spawnCount,
                   termSignals, exitSeenAfterReady, isElectron,
                   pywebviewReady, jobVars>>

\* app.js:173-178: the fetch settles.  Whoever listens on the port answers
\* with JSON (a result or an error payload) or with something that is not
\* JSON; with nobody listening the connection is refused.
FetchSettle ==
    /\ appState = "running"
    /\ callPhase = "fetching"
    /\ callPhase' = "done"
    /\ IF Listener
       THEN \E o \in {"json", "error_payload", "nonjson"} :
              /\ callTransport' = o
              /\ callResult' = HttpResult(callMethod, BackendBehaviour(o))
       ELSE /\ callTransport' = "unreachable"
            /\ callResult' = NULL
    /\ UNCHANGED <<diskVars, foreignServer, child, uvPhase, appState,
                   launches, pc, quitting, pythonProcess, windowVars,
                   isBackendReady, probeVars, callMethod, callFetched,
                   healthyAtInvoke, markerAtStartup, provisionAttempts,
                   setupResult, errorBoxes, spawnCount, termSignals,
                   exitSeenAfterReady, isElectron, pywebviewReady, callAge,
                   jobVars>>

\* app.js:166-173: fetch() is called without a signal or a timeout, so the
\* await lasts for as long as the listener holds the connection open without
\* answering.  500 ms pass on a pending fetch.
FetchWait ==
    /\ appState = "running"
    /\ callPhase = "fetching"
    /\ Listener
    /\ callAge < MaxCallWait
    /\ callAge' = callAge + 1
    /\ UNCHANGED <<diskVars, foreignServer, child, uvPhase, appState,
                   launches, pc, quitting, pythonProcess, windowVars,
                   isBackendReady, probeVars, callPhase, callMethod,
                   callResult, callFetched, callTransport, healthyAtInvoke,
                   markerAtStartup, provisionAttempts, setupResult,
                   errorBoxes, spawnCount, termSignals, exitSeenAfterReady,
                   isElectron, pywebviewReady, jobVars>>

\* app.js:186-191: the promise of window.pywebview.api[method] settles with
\* the method's value (a result or an error payload) or rejects
DirectSettle ==
    /\ appState = "running"
    /\ callPhase = "calling"
    /\ callPhase' = "done"
    /\ \E o \in {"value", "error_payload", "raises"} :
         /\ callTransport' = o
         /\ callResult' = DirectResult(callMethod, BackendBehaviour(o))
    /\ UNCHANGED <<diskVars, foreignServer, child, uvPhase, appState,
                   launches, pc, quitting, pythonProcess, windowVars,
                   isBackendReady, probeVars, callMethod, callFetched,
                   healthyAtInvoke, markerAtStartup, provisionAttempts,
                   setupResult, errorBoxes, spawnCount, termSignals,
                   exitSeenAfterReady, isElectron, pywebviewReady, callAge,
                   jobVars>>

\* app.js:741-746: the pywebview host has injected window.pywebview.api
PywebviewReady ==
    /\ appState = "running"
    /\ ~isElectron /\ ~pywebviewReady
    /\ pywebviewReady' = TRUE
    /\ UNCHANGED <<diskVars, foreignServer, child, uvPhase, appState,
                   launches, pc, quitting, pythonProcess, windowVars,
                   isBackendReady, probeVars, callPhase, callMethod,
                   callResult, callFetched, callTransport, healthyAtInvoke,
                   markerAtStartup, provisionAttempts, setupResult,
                   errorBoxes, spawnCount, termSignals, exitSeenAfterReady,
                   isElectron, callAge, jobVars>>

----------------------------------------------------------------------------
Next ==
    \/ AppReady
    \/ UvCreateVenv
    \/ UvInstallDeps
    \/ UvFail
    \/ SetupReturn
    \/ ChildServe
    \/ ChildExit
    \/ CheckServer
    \/ ReqResponse
    \/ ReqError
    \/ ReqTimeout
    \/ Tick
    \/ UserQuit
    \/ AppExit
    \/ UserCloseWindow
    \/ MainWindowReadyToShow
    \/ Activate
    \/ UncaughtException
    \/ Relaunch
    \/ CallAPI
    \/ FetchSettle

Spec == Init /\ [][Next]_vars

\* waitForServer(timeout) on its own: the state right after startPythonBackend
\* called it, for several values of its argument
InitProbe ==
    /\ marker = TRUE
    /\ depsInstalled = TRUE
    /\ foreignServer \in BOOLEAN
    /\ child = "starting"
    /\ uvPhase = "idle"
    /\ appState = "running"
    /\ launches = 1
    /\ pc = "probing"
    /\ quitting = FALSE
    /\ pythonProcess = "proc"
    /\ mainWindow = NULL
    /\ setupWindow = NULL
    /\ isBackendReady = FALSE
    /\ timeout \in ProbeTimeouts
    /\ now = 0
    /\ timers = SetToBag({InitialDelay})
    /\ reqs = EmptyBag
    /\ result = "pending"
    /\ resolvedAt = 0
    /\ lastStatus = 0
    /\ lastPending = FALSE
    /\ callPhase = "idle"
    /\ callMethod = NULL
    /\ callResult = NULL
    /\ callFetched = FALSE
    /\ callTransport = NULL
    /\ isElectron = TRUE
    /\ pywebviewReady = FALSE
    /\ callAge = 0
    /\ JobInit
    /\ markerAtStartup = TRUE
    /\ provisionAttempts = 0
    /\ setupResult = NULL
    /\ errorBoxes = [t \in ErrorTitles |-> 0]
    /\ spawnCount = 1
    /\ termSignals = 0
    /\ healthyAtInvoke = FALSE
    /\ exitSeenAfterReady = FALSE

NextProbe ==
    \/ ChildServe
    \/ ChildExit
    \/ CheckServer
    \/ ReqResponse
    \/ ReqError
    \/ ReqTimeout
    \/ Tick

SpecProbe == InitProbe /\ [][NextProbe]_vars

----------------------------------------------------------------------------
\* The bridge on its own, in either host.  In Electron the page exists once
\* the supervisor has made the backend ready: the state is the one the
\* 'ready' handler leaves behind after a successful probe, with the window
\* shown.  In the pywebview host there is no Electron main process: its
\* variables keep their initial values, except that the page is shown.
InitBridge ==
    /\ isElectron \in BOOLEAN
    /\ pywebviewReady = FALSE
    /\ callAge = 0
    /\ JobInit
    /\ marker = isElectron
    /\ depsInstalled = isElectron
    /\ foreignServer \in BOOLEAN
    /\ child = IF isElectron THEN "serving" ELSE "none"
    /\ uvPhase = "idle"
    /\ appState = "running"
    /\ launches = 1
    /\ pc = "done"
    /\ quitting = FALSE
    /\ pythonProcess = IF isElectron THEN "proc" ELSE NULL
    /\ mainWindow = "shown"
    /\ setupWindow = NULL
    /\ isBackendReady = isElectron
    /\ timeout = IF isElectron THEN StartupTimeout ELSE 0
    /\ now = IF isElectron THEN InitialDelay ELSE 0
    /\ timers = EmptyBag
    /\ reqs = EmptyBag
    /\ result = IF isElectron THEN "true" ELSE "none"
    /\ resolvedAt = IF isElectron THEN InitialDelay ELSE 0
    /\ lastStatus = IF isElectron THEN 200 ELSE 0
    /\ lastPending = isElectron
    /\ callPhase = "idle"
    /\ callMethod = NULL
    /\ callResult = NULL
    /\ callFetched = FALSE
    /\ callTransport = NULL
    /\ markerAtStartup = isElectron
    /\ provisionAttempts = 0
    /\ setupResult = NULL
    /\ errorBoxes = [t \in ErrorTitles |-> 0]
    /\ spawnCount = IF isElectron THEN 1 ELSE 0
    /\ termSignals = 0
    /\ healthyAtInvoke = FALSE
    /\ exitSeenAfterReady = FALSE

NextBridge ==
    \/ CallAPI
    \/ FetchSettle
    \/ FetchWait
    \/ DirectSettle
    \/ PywebviewReady
    \/ ChildExit

SpecBridge == InitBridge /\ [][NextBridge]_vars

----------------------------------------------------------------------------
\* The synthesis job: startGeneration, pollProgress, stopPolling and
\* stopGeneration of app.js:459-545, and the backend that owns the job.
\* The backend's code is not part of the page; it starts, advances, finishes
\* and stops the job as it sees fit, and a reply may be lost on its way.
notJobVars == <<diskVars, foreignServer, child, uvPhase, appState, launches,
                pc, quitting, pythonProcess, windowVars, isBackendReady,
                probeVars, markerAtStartup, provisionAttempts, setupResult,
                errorBoxes, spawnCount, termSignals, exitSeenAfterReady,
                callPhase, callMethod, callResult, callFetched,
                callTransport, healthyAtInvoke, isElectron, pywebviewReady,
                callAge>>

UI == [synthesisRunning |-> synthesisRunning,
       progressInterval |-> progressInterval,
       progressFill     |-> progressFill]

SetUI(u) ==
    /\ synthesisRunning' = u.synthesisRunning
    /\ progressInterval' = u.progressInterval
    /\ progressFill' = u.progressFill

\* app.js:531-540
stopPolling(u) ==
    [u EXCEPT !.progressInterval = FALSE, !.synthesisRunning = FALSE]

pollProgress_StopsOnNull(u, progress) ==
    IF progress.kind = "null" \/ ~progress.running
    THEN stopPolling([u EXCEPT !.progressFill = progress.percent])
    ELSE [u EXCEPT !.progressFill = progress.percent]

\* app.js:500-528: what pollProgress does with the value it received
pollProgress(u, progress) ==
    IF progress.kind = "null"
    THEN u
    ELSE IF ~progress.running
         THEN stopPolling([u EXCEPT !.progressFill = progress.percent])
         ELSE [u EXCEPT !.progressFill = progress.percent]

\* app.js:459-483: the start button (hidden while a job is shown as running)
StartGeneration ==
    /\ appState = "running" /\ WindowOpen(mainWindow)
    /\ ~synthesisRunning
    /\ ctlCall = "idle"
    /\ ctlCall' = "start"
    /\ UNCHANGED <<notJobVars, jobRunning, jobPercent, synthesisRunning,
                   progressInterval, progressFill, pollCall, pollReply,
                   ctlReply>>

\* app.js:485-494: callAPI('start_synthesis') settles
StartSettle ==
    /\ ctlCall = "start"
    /\ ctlCall' = "idle"
    /\ \E o \in {"null", "error_payload", "success"}, reached \in BOOLEAN :
         /\ ctlReply' = o
         /\ o = "success" => reached
         /\ o = "error_payload" => ~reached
         /\ IF reached
            THEN jobRunning' = TRUE /\ jobPercent' = 0
            ELSE UNCHANGED <<jobRunning, jobPercent>>
         /\ IF o = "success"
            THEN /\ synthesisRunning' = TRUE
                 /\ progressInterval' = TRUE
            ELSE UNCHANGED <<synthesisRunning, progressInterval>>
    /\ UNCHANGED <<notJobVars, progressFill, pollCall, pollReply>>

\* app.js:497-498: the interval fires and pollProgress issues its call
PollProgress ==
    /\ appState = "running" /\ WindowOpen(mainWindow)
    /\ progressInterval
    /\ pollCall = "idle"
    /\ pollCall' = "pending"
    /\ UNCHANGED <<notJobVars, jobRunning, jobPercent, synthesisRunning,
                   progressInterval, progressFill, ctlCall, pollReply,
                   ctlReply>>

\* app.js:498-528: callAPI('get_synthesis_progress') settles, with null or
\* with the backend's state
PollSettle ==
    /\ pollCall = "pending"
    /\ pollCall' = "idle"
    /\ \E progress \in {NullReply, Snapshot(jobRunning, jobPercent)} :
         /\ pollReply' = progress
         /\ SetUI(pollProgress(UI, progress))
    /\ UNCHANGED <<notJobVars, jobRunning, jobPercent, ctlCall, ctlReply>>

\* app.js:542-543: the stop button, shown with the progress bar
StopGeneration ==
    /\ appState = "running" /\ WindowOpen(mainWindow)
    /\ synthesisRunning
    /\ ctlCall = "idle"
    /\ ctlCall' = "stop"
    /\ UNCHANGED <<notJobVars, jobRunning, jobPercent, synthesisRunning,
                   progressInterval, progressFill, pollCall, pollReply,
                   ctlReply>>

\* app.js:543-544: callAPI('stop_synthesis') settles, then stopPolling()
\* runs whatever the call returned
StopSettle ==
    /\ ctlCall = "stop"
    /\ ctlCall' = "idle"
    /\ \E o \in {"null", "success"}, stopped \in BOOLEAN :
         /\ ctlReply' = o
         /\ jobRunning' = (jobRunning /\ ~stopped)
    /\ SetUI(stopPolling(UI))
    /\ UNCHANGED <<notJobVars, jobPercent, pollCall, pollReply>>

\* The backend makes progress
JobAdvance ==
    /\ jobRunning
    /\ jobPercent < MaxPercent
    /\ jobPercent' = jobPercent + 1
    /\ UNCHANGED <<notJobVars, jobRunning, synthesisRunning,
                   progressInterval, progressFill, pollCall, ctlCall,
                   pollReply, ctlReply>>

\* The backend's job ends, completed or failed
JobFinish ==
    /\ jobRunning
    /\ jobRunning' = FALSE
    /\ UNCHANGED <<notJobVars, jobPercent, synthesisRunning,
                   progressInterval, progressFill, pollCall, ctlCall,
                   pollReply, ctlReply>>

\* The page in the window of a ready Electron app
InitJob == InitBridge /\ isElectron

NextJob ==
    \/ StartGeneration
    \/ StartSettle
    \/ PollProgress
    \/ PollSettle
    \/ StopGeneration
    \/ StopSettle
    \/ JobAdvance
    \/ JobFinish

SpecJob == InitJob /\ [][NextJob]_vars

----------------------------------------------------------------------------
\* Properties

\* C1: no bridge call is dispatched, and no main window (the only host of the
\* frontend) exists, unless the supervisor has set isBackendReady; this covers
\* the window made by the 'ready' handler and the one made by 'activate'.
C1_WindowOnlyWhenReady ==
    (WindowOpen(mainWindow) \/ callPhase # "idle" \/ callFetched)
        => isBackendReady

C1_Witness ==
    /\ callPhase = "fetching" /\ callFetched
    /\ isBackendReady /\ WindowOpen(mainWindow)

\* C2: a callAPI invocation made while the supervisor is not Healthy issues no
\* network request and completes with the value "not_ready".
C2_NotReadyRejected ==
    (callPhase # "idle" /\ ~healthyAtInvoke)
        => /\ ~callFetched
           /\ callPhase = "done" => callResult = "not_ready"

\* C3: once the child's 'exit' handler has run after isBackendReady was set,
\* isBackendReady is no longer true.
C3_ExitLeavesHealthy == exitSeenAfterReady => ~isBackendReady

\* C4: after the Healthy backend died, a callAPI whose request finds nobody
\* listening completes with a value that differs from the value returned for
\* an unknown method (null) and from a backend payload.
C4_UnavailableDistinct ==
    (exitSeenAfterReady /\ callPhase = "done" /\ callTransport = "unreachable")
        => callResult \notin {NULL, "json", "error_payload"}

\* C5: after setupPythonEnvironment returned false the install marker is
\* absent.
C5_NoMarkerAfterFailure == setupResult = "false" => ~marker

\* C6: in a launch that found the install marker, setupPythonEnvironment is
\* never invoked: no setup window, no uv sync, no provisioning result.
C6_NoProvisioningWhenMarked ==
    markerAtStartup
        => /\ provisionAttempts = 0
           /\ setupWindow = NULL
           /\ uvPhase = "idle"
           /\ setupResult = NULL

C6_Witness ==
    /\ launches > 1 /\ markerAtStartup
    /\ pc = "done" /\ isBackendReady

\* C7: provisioning is attempted at most once per launch, and after it
\* failed the "Setup Failed" box was shown exactly once, the app is quitting
\* and no backend was ever spawned.
C7_ProvisionFailureFatal ==
    /\ provisionAttempts <= 1
    /\ setupResult = "false"
         => /\ errorBoxes["Setup Failed"] = 1
            /\ errorBoxes["Server Error"] = 0
            /\ quitting
            /\ provisionAttempts = 1
            /\ spawnCount = 0
            /\ pythonProcess = NULL
            /\ ~isBackendReady

C7_Witness ==
    /\ setupResult = "false" /\ appState = "exited"
    /\ errorBoxes["Setup Failed"] = 1

\* C8: waitForServer(timeout) resolves false at an elapsed time t with
\* timeout <= t < timeout + 1 s (1 s is 2 ticks).
C8_FalseWithinOneSecond ==
    result = "false"
        => (timeout <= resolvedAt /\ resolvedAt < timeout + 2)

\* C9: waitForServer never resolves true later than startTime + timeout.
C9_NeverTrueAfterDeadline == result = "true" => resolvedAt <= timeout

\* C10 as stated: a response with any status in 200..299 that reaches a
\* pending waitForServer resolves it true.
C10_Any2xxSucceeds ==
    (lastPending /\ lastStatus \in 200 .. 299) => result = "true"

\* C10 as amended: a response that reaches a pending waitForServer resolves
\* it true exactly when its status is 200; every other status, the other 2xx
\* codes included, leaves it unresolved by that response.
C10_Only200Succeeds ==
    lastPending => (result = "true" <=> lastStatus = 200)

C10_Witness ==
    /\ lastPending /\ lastStatus = 200
    /\ result = "true" /\ isBackendReady

\* C11: a probe attempt that ends with a connection error or with the
\* per-attempt timeout never settles waitForServer: while the promise is
\* pending an attempt is always scheduled or in flight, every retry is due at
\* most 500 ms ahead (only the first attempt is 1 s ahead), and the promise
\* is false only if it was resolved at or after the overall deadline.
C11_FailedAttemptNotFatal ==
    /\ result = "false" => resolvedAt >= timeout
    /\ result = "pending" => Chains > 0
    /\ \A t \in BagToSet(timers) :
         \/ t <= now + RetryDelay
         \/ t = InitialDelay /\ now < InitialDelay

C11_Witness ==
    /\ result = "false" /\ lastStatus = 0
    /\ timeout > InitialDelay /\ resolvedAt >= timeout

\* C12 as stated: isBackendReady is true only in a launch whose environment
\* was ready (marker found or provisioning succeeded), whose child was spawned
\* once and whose probe resolved true; it is written only by the step that
\* settles the pending probe of the 'ready' handler, never after provisioning
\* failed, and never after the stop of the quit sequence has run.
C12_ReadyOnlyByOrderedStartup ==
    [][ /\ isBackendReady'
             => /\ markerAtStartup' \/ setupResult' = "true"
                /\ spawnCount' = 1
                /\ result' = "true"
        /\ (~isBackendReady /\ isBackendReady')
             => /\ pc = "probing" /\ result = "pending"
                /\ setupResult # "false"
                /\ ~quitting
      ]_vars

\* C13: once waitForServer resolved false the handle is cleared and a child
\* that is still alive has been sent SIGTERM, the "Server Error" box was
\* shown once, the app is quitting, isBackendReady is false, no main window
\* exists and the renderer made no call.
C13_ProbeFailureFatal ==
    result = "false"
        => /\ pythonProcess = NULL
           /\ ChildAlive => termSignals = 1
           /\ errorBoxes["Server Error"] = 1
           /\ quitting
           /\ ~isBackendReady
           /\ mainWindow = NULL
           /\ callPhase = "idle" /\ ~callFetched

C13_Witness ==
    /\ result = "false" /\ appState = "exited"
    /\ termSignals = 1 /\ spawnCount = 1
    /\ errorBoxes["Server Error"] = 1

\* C14: within one launch the backend is spawned at most once, and the step
\* that spawns it starts from a state with no spawn, no handle and no live
\* child.
C14_SingleBackendProcess ==
    [][ /\ spawnCount' <= 1
        /\ spawnCount' > spawnCount
             => spawnCount = 0 /\ pythonProcess = NULL /\ ~ChildAlive
      ]_vars

C14_Witness ==
    /\ spawnCount = 1 /\ ChildAlive
    /\ pythonProcess # NULL /\ isBackendReady

\* C15: stopPythonBackend applied twice equals stopPythonBackend applied
\* once, applied without a handle (already stopped, or the child exited) it
\* changes nothing, and in every launch SIGTERM is sent at most once.
C15_StopIdempotent ==
    /\ termSignals <= 1
    /\ stopPythonBackend(stopPythonBackend(Main)) = stopPythonBackend(Main)
    /\ pythonProcess = NULL => stopPythonBackend(Main) = Main

C15_Witness ==
    /\ result = "false" /\ quitting
    /\ termSignals = 1 /\ pythonProcess = NULL

\* C16: when the application has exited after the stop sent SIGTERM, the
\* child is no longer alive.
C16_ChildGoneAtExit ==
    (appState = "exited" /\ termSignals >= 1) => ~ChildAlive

\* C17: after the 'before-quit' handler has run, isBackendReady is not true.
C17_StoppedAfterQuit == quitting => ~isBackendReady

\* C18: once quit was requested while the startup had not yet made the
\* backend ready, no later step of that launch sets isBackendReady or
\* creates the main window.
C18_ShutdownAbortsStartup ==
    [][ (quitting /\ ~isBackendReady /\ launches' = launches)
            => (~isBackendReady' /\ mainWindow' = NULL)
      ]_vars

\* C19: in either transport a callAPI invocation whose method has no entry
\* in that transport's method table completes with a value other than null,
\* the value a transport failure (backend unreachable, call rejected)
\* produces.
C19_UnsupportedDistinct ==
    (/\ callPhase = "done"
     /\ callMethod \notin (IF isElectron THEN API_ENDPOINTS ELSE DirectApi))
        => callResult # NULL

\* C20: a call the backend answered (with a result or an error payload)
\* returned the value the other transport returns for the same method and
\* the same backend behaviour.
C20_TransportsAgree ==
    (/\ callPhase = "done"
     /\ BackendBehaviour(callTransport) \in {"result", "error_payload"})
        => callResult =
             IF isElectron
             THEN DirectResult(callMethod, BackendBehaviour(callTransport))
             ELSE HttpResult(callMethod, BackendBehaviour(callTransport))

\* C21: a callAPI invocation whose transport failed (nobody listening, a
\* reply that is not JSON, a rejected direct call) completes with a failure
\* value that carries a message, which null does not.
C21_TypedFailure ==
    (/\ callPhase = "done"
     /\ callTransport \in {"unreachable", "nonjson", "raises"})
        => callResult # NULL

\* C22: every bridge call is bounded: a fetch() never stays pending for as
\* long as MaxCallWait ticks, the longest wait the model counts.
C22_CallBounded == callPhase = "fetching" => callAge < MaxCallWait

\* C23: a pollProgress that received null leaves synthesisRunning,
\* progressInterval and the progress display as they were, so polling goes
\* on; one that received a snapshot shows the backend's progress and, when
\* the backend's job is not running, stops polling.
C23_PollAdvisory ==
    [][ (pollCall = "pending" /\ pollCall' = "idle")
          => /\ pollReply'.kind = "null"
                  => UNCHANGED <<synthesisRunning, progressInterval,
                                 progressFill>>
             /\ pollReply'.kind = "snapshot"
                  => /\ progressFill' = jobPercent'
                     /\ ~jobRunning'
                          => ~synthesisRunning' /\ ~progressInterval'
      ]_vars

C23_Witness ==
    /\ pollReply.kind = "null" /\ pollCall = "idle"
    /\ synthesisRunning /\ progressInterval /\ jobRunning

\* C24: state.synthesisRunning is cleared only by applying a backend reply:
\* a polled snapshot that says the job is not running, or the backend's
\* acknowledgement of stop_synthesis.
C24_OnlyRelayed ==
    [][ (synthesisRunning /\ ~synthesisRunning')
          => \/ /\ pollCall = "pending" /\ pollCall' = "idle"
                /\ pollReply'.kind = "snapshot" /\ ~pollReply'.running
             \/ /\ ctlCall = "stop" /\ ctlCall' = "idle"
                /\ ctlReply' = "success"
      ]_vars

\* C25: once the application has exited in a launch that spawned a child,
\* the handle is cleared and either stopPythonBackend signalled the child or
\* the child had exited by itself.
C25_ReleasedOnExit ==
    (appState = "exited" /\ spawnCount >= 1)
        => /\ pythonProcess = NULL
           /\ termSignals >= 1 \/ child = "exited"

C25_Witness ==
    /\ appState = "exited" /\ spawnCount = 1
    /\ isBackendReady /\ termSignals = 1

\* C26: the step that sets isBackendReady while the app is not quitting
\* leaves the handle set and the spawned child alive.
C26_ReadyImpliesChildAlive ==
    [][ (~isBackendReady /\ isBackendReady' /\ ~quitting)
          => (pythonProcess' # NULL /\ ChildAlive')
      ]_vars

\* C27: at most one probe chain exists: pending checkServer timers and
\* requests in flight number at most one.
C27_SingleProbeChain == Chains <= 1

\* C28: a window-all-closed event makes the app quit only if
\* isBackendReady.
C28_QuitOnlyWhenReady ==
    [][ (UserCloseWindow /\ ~quitting /\ quitting') => isBackendReady ]_vars

====
